---- MODULE Spec2Model ----
(***************************************************************************)
(* The game engine of ZipperMerge-Ultra (src/src/App.tsx): the tile        *)
(* collection, the move/merge scan, the spawn, the terminal-state check    *)
(* and the history-based undo, with the three handlers of the App          *)
(* component that drive it.                                                *)
(*                                                                         *)
(* Tiles are records; engine.state.tiles is a sequence of them.  Inside    *)
(* move the code works on JavaScript object references (the grid and the   *)
(* tile array point to the same objects, indexOf compares references), so  *)
(* the scan is modelled on a small heap: a reference is an index into      *)
(* heap, the tile array and the grid hold references.  Arrays and grids    *)
(* are updated by writing the new function out, element by element.        *)
(*                                                                         *)
(* The optional flags isNew / justMerged are only ever read for their      *)
(* truthiness (App.tsx:1477), so an absent flag is modelled as FALSE.      *)
(* Tile ids `tile-${n}` are modelled by the number n.                      *)
(***************************************************************************)
EXTENDS Integers, Sequences, FiniteSets, TLC

VARIABLES
    size,            \* the size argument of initGame / move (boardSize in App)
    state,           \* engine.state : GameState
    history,         \* engine.history : GameState[]
    undosRemaining,  \* engine.undosRemaining
    highScore,       \* engine.highScore
    nextId,          \* the module-level counter nextId
    localStorage,    \* the two persisted records
    moved,           \* the value returned by the last call of move
    accepted,        \* how many calls of move have returned true so far
    last             \* the last operation: its name, argument, the state
                     \* before it, the tiles after the slide/merge scan
                     \* and the sound it scheduled

vars == <<size, state, history, undosRemaining, highScore, nextId,
          localStorage, moved, accepted, last>>

(***************************************************************************)
(* Bounds of the model.                                                    *)
(***************************************************************************)
\* grid size of the games played from initGame
GameSize == 2
\* a call of move that moves a tile is taken while accepted < MaxMoves
MaxMoves == 2
\* handleRestart is taken while stats.gamesPlayed < MaxGames
MaxGames == 2

(***************************************************************************)
(* Program constants.                                                      *)
(***************************************************************************)
\* initGame: undosRemaining: 3
InitialUndos == 3
\* handleMove: if (engine.history.length > 10) engine.history.shift()
HistoryCapacity == 10
\* move: merged.value === 2048
WinValue == 2048

Directions == {"up", "down", "left", "right"}

null == 0
noCell == <<>>
absent == -1

(***************************************************************************)
(* Small helpers on sequences.                                             *)
(***************************************************************************)
Range(s) == {s[i] : i \in DOMAIN s}

\* Array.prototype.indexOf, 1-based, 0 when the element is not in the array
indexOf(s, e) ==
    IF \E i \in DOMAIN s : s[i] = e
    THEN CHOOSE i \in DOMAIN s : s[i] = e /\ \A j \in DOMAIN s : s[j] = e => i <= j
    ELSE 0

\* Array.prototype.splice(idx, 1)
splice1(s, idx) == [i \in 1..(Len(s) - 1) |-> IF i < idx THEN s[i] ELSE s[i + 1]]

RECURSIVE SeqMax(_)
\* Math.max(...values); Math.max() of nothing is -Infinity, which is never
\* larger than a stored maximum, modelled by 0
SeqMax(s) ==
    IF s = <<>> THEN 0
    ELSE LET m == SeqMax(Tail(s)) IN IF Head(s) > m THEN Head(s) ELSE m

Max(a, b) == IF a > b THEN a ELSE b

(***************************************************************************)
(* createEmptyState                                                        *)
(***************************************************************************)
createEmptyState ==
    [tiles |-> <<>>, score |-> 0, moves |-> 0, comboCount |-> 0,
     gameOver |-> FALSE, won |-> FALSE]

(***************************************************************************)
(* Persistence: loadHighScore, saveHighScore, loadStats, saveStats.        *)
(* The decimal text written by toString and read back by parseInt is the   *)
(* same non-negative integer; the stats record goes through JSON the same  *)
(* way.  An absent key gives the default.                                  *)
(***************************************************************************)
defaultStats ==
    [gamesPlayed |-> 0, gamesWon |-> 0, totalScore |-> 0, bestCombo |-> 0,
     highestTile |-> 0]

loadHighScore(ls) ==
    IF ls.zipperMergeHighScore = absent THEN 0 ELSE ls.zipperMergeHighScore

saveHighScore(ls, score) == [ls EXCEPT !.zipperMergeHighScore = score]

loadStats(ls) ==
    IF ls.hasStats THEN ls.zipperMergeStats ELSE defaultStats

saveStats(ls, stats) ==
    [ls EXCEPT !.hasStats = TRUE, !.zipperMergeStats = stats]

(***************************************************************************)
(* spawnTile: the set of tile arrays the call can leave, one per choice of *)
(* an empty cell and of the value 2 or 4; the array is unchanged when no   *)
(* cell is empty.                                                          *)
(***************************************************************************)
Cells(sz) == (0..(sz - 1)) \X (0..(sz - 1))

\* a spawn that does not look at the tiles: every cell counts as empty
everyCell(tiles, sz) == Cells(sz)

emptyCells(tiles, sz) ==
    {c \in Cells(sz) : ~\E i \in DOMAIN tiles : tiles[i].row = c[1] /\ tiles[i].col = c[2]}

\* a spawn that forgets the isNew flag
spawnTileUnflagged(tiles, sz, id) ==
    IF emptyCells(tiles, sz) = {} THEN {tiles}
    ELSE {Append(tiles, [id |-> id, value |-> v, row |-> c[1], col |-> c[2],
                         isNew |-> FALSE, justMerged |-> FALSE]) :
            c \in emptyCells(tiles, sz), v \in {2, 4}}

spawnTile(tiles, sz, id) ==
    IF emptyCells(tiles, sz) = {} THEN {tiles}
    ELSE {Append(tiles, [id |-> id, value |-> v, row |-> c[1], col |-> c[2],
                         isNew |-> TRUE, justMerged |-> FALSE]) :
            c \in emptyCells(tiles, sz), v \in {2, 4}}

\* whether spawnTile pushes a tile (and so advances nextId)
spawns(tiles, sz) == emptyCells(tiles, sz) # {}

(***************************************************************************)
(* buildGrid, on references: grid[cell] is the reference of the last tile  *)
(* of the array that sits on the cell, null when there is none.            *)
(***************************************************************************)
buildGrid(tiles, sz) ==
    [c \in Cells(sz) |->
       LET on == {i \in DOMAIN tiles : tiles[i].row = c[1] /\ tiles[i].col = c[2]}
       IN IF on = {} THEN null
          ELSE CHOOSE i \in on : \A j \in on : j <= i]

\* a vector table with the signs of left and right exchanged
getVectorMirrored(direction) ==
    CASE direction = "up" -> [row |-> -1, col |-> 0]
      [] direction = "down" -> [row |-> 1, col |-> 0]
      [] direction = "left" -> [row |-> 0, col |-> 1]
      [] direction = "right" -> [row |-> 0, col |-> -1]

getVector(direction) ==
    CASE direction = "up" -> [row |-> -1, col |-> 0]
      [] direction = "down" -> [row |-> 1, col |-> 0]
      [] direction = "left" -> [row |-> 0, col |-> -1]
      [] direction = "right" -> [row |-> 0, col |-> 1]

ascending(sz) == [i \in 1..sz |-> i - 1]
reverse(s) == [i \in 1..Len(s) |-> s[Len(s) + 1 - i]]

getTraversals(direction, sz) ==
    [rows |-> IF direction = "down" THEN reverse(ascending(sz)) ELSE ascending(sz),
     cols |-> IF direction = "right" THEN reverse(ascending(sz)) ELSE ascending(sz)]

RECURSIVE findFarthestFrom(_, _, _, _)
findFarthestFrom(previous, vector, grid, sz) ==
    LET next == <<previous[1] + vector.row, previous[2] + vector.col>> IN
    IF next[1] < 0 \/ next[1] >= sz \/ next[2] < 0 \/ next[2] >= sz
    THEN [farthest |-> previous, next |-> noCell]
    ELSE IF grid[next] # null
         THEN [farthest |-> previous, next |-> next]
         ELSE findFarthestFrom(next, vector, grid, sz)

findFarthestPosition(position, vector, grid, sz) ==
    findFarthestFrom(position, vector, grid, sz)

(***************************************************************************)
(* The working state of one call of move:                                  *)
(*   heap   the tile objects, a reference is an index into it              *)
(*   tiles  engine.state.tiles as references                               *)
(*   grid   the grid of references                                         *)
(* and the values the scan accumulates.                                    *)
(***************************************************************************)
\* moveTile(tile, position, tiles, grid), tile given by its reference
moveTile(w, ref, position) ==
    LET tile == w.heap[ref]
        from == <<tile.row, tile.col>>
    IN [w EXCEPT
          !.heap = [i \in DOMAIN w.heap |->
                      IF i = ref
                      THEN [id |-> tile.id, value |-> tile.value,
                            row |-> position[1], col |-> position[2],
                            isNew |-> tile.isNew, justMerged |-> tile.justMerged]
                      ELSE w.heap[i]],
          !.grid = [c \in DOMAIN w.grid |->
                      IF c = position THEN ref
                      ELSE IF c = from THEN null
                      ELSE w.grid[c]]]

\* a merge that leaves the moving tile in the array
mergeKeepsMovingTile(tiles, ref, nextRef, mergedRef) ==
    LET nextIdx == indexOf(tiles, nextRef)
    IN [i \in DOMAIN tiles |-> IF i = nextIdx THEN mergedRef ELSE tiles[i]]

\* lines 256-262: the moving tile is spliced out of the array when it is
\* in it, and the merged tile takes the place of the blocking tile when
\* the blocking tile is in it
mergeIntoTiles(tiles, ref, nextRef, mergedRef) ==
    LET idx == indexOf(tiles, ref)
        t1 == IF idx # 0 THEN splice1(tiles, idx) ELSE tiles
        nextIdx == indexOf(t1, nextRef)
    IN [i \in DOMAIN t1 |-> IF i = nextIdx THEN mergedRef ELSE t1[i]]

\* a merge test that lets a tile merge into a tile of any value
canMergeAnyValue(nextTile, tile, mergeKey, mergedPositions) ==
    mergeKey \notin mergedPositions

\* line 244: nextTile.value === tile.value && !mergedPositions.has(mergeKey)
canMerge(nextTile, tile, mergeKey, mergedPositions) ==
    nextTile.value = tile.value /\ mergeKey \notin mergedPositions

\* a merge whose result takes the id of the moving tile
mergedTileIdOfMover(nextTile, tile, next) ==
    [id |-> tile.id, value |-> tile.value * 2,
     row |-> next[1], col |-> next[2],
     isNew |-> FALSE, justMerged |-> TRUE]

\* a merge that adds 2 to the value where it should double it
mergedTilePlusTwo(nextTile, tile, next) ==
    [id |-> nextTile.id, value |-> tile.value + 2,
     row |-> next[1], col |-> next[2],
     isNew |-> FALSE, justMerged |-> TRUE]

\* lines 245-251: the tile a merge makes
mergedTile(nextTile, tile, next) ==
    [id |-> nextTile.id, value |-> tile.value * 2,
     row |-> next[1], col |-> next[2],
     isNew |-> FALSE, justMerged |-> TRUE]

\* a merge that takes the value of the merged tile off the score
subtractScore(score, merged) == score - merged.value

\* line 253: engine.state.score += merged.value
addScore(score, merged) == score + merged.value

\* a win flag that is assigned by every merge instead of being set once
wonByThisMerge(won, merged) == merged.value = WinValue

\* lines 268-270: if (merged.value === 2048 && !engine.state.won) won = true
winsBy(won, merged) == won \/ merged.value = WinValue

\* a scan that never counts a slide as a move: only merges set moved
neverChanged(farthest, row, col) == FALSE

\* a scan that counts every tile it visits as moved
alwaysChanged(farthest, row, col) == TRUE

\* lines 273 and 279: the tile was put on another cell than its own
changedPosition(farthest, row, col) == farthest[1] # row \/ farthest[2] # col

\* the body of the loop of move for the cell (row, col)
scanCell(w, row, col, vector, sz) ==
    LET ref == w.grid[<<row, col>>] IN
    IF ref = null THEN w
    ELSE
      LET tile == w.heap[ref]
          positions == findFarthestPosition(<<row, col>>, vector, w.grid, sz)
          next == positions.next
          slide == [moveTile(w, ref, positions.farthest) EXCEPT
                      !.moved = w.moved \/ changedPosition(positions.farthest, row, col)]
      IN
      IF next # noCell /\ w.grid[next] # null
      THEN
        LET nextRef == w.grid[next]
            nextTile == w.heap[nextRef]
        IN
        IF canMerge(nextTile, tile, next, w.mergedPositions)
        THEN
          LET merged == mergedTile(nextTile, tile, next)
              mergedRef == Len(w.heap) + 1
          IN [heap |-> Append(w.heap, merged),
              tiles |-> mergeIntoTiles(w.tiles, ref, nextRef, mergedRef),
              grid |-> [c \in DOMAIN w.grid |->
                          IF c = next THEN mergedRef ELSE w.grid[c]],
              score |-> addScore(w.score, merged),
              comboCount |-> w.comboCount + 1,
              mergedPositions |-> w.mergedPositions \cup {next},
              moved |-> TRUE,
              won |-> winsBy(w.won, merged)]
        ELSE slide
      ELSE slide

RECURSIVE scanCols(_, _, _, _, _, _)
scanCols(w, row, cols, k, vector, sz) ==
    IF k > Len(cols) THEN w
    ELSE scanCols(scanCell(w, row, cols[k], vector, sz), row, cols, k + 1, vector, sz)

RECURSIVE scanRows(_, _, _, _, _, _)
scanRows(w, rows, cols, k, vector, sz) ==
    IF k > Len(rows) THEN w
    ELSE scanRows(scanCols(w, rows[k], cols, 1, vector, sz), rows, cols, k + 1, vector, sz)

\* move, lines 219-284: the flags are cleared, comboCount is reset and the
\* cells are scanned in traversal order.  The result is the GameState
\* before the spawn with the local variable moved.
clearFlags(tiles) ==
    [i \in DOMAIN tiles |->
       [id |-> tiles[i].id, value |-> tiles[i].value,
        row |-> tiles[i].row, col |-> tiles[i].col,
        isNew |-> FALSE, justMerged |-> FALSE]]

\* a move that goes on counting from the comboCount of the move before
carryCombo(comboCount) == comboCount

\* line 230: engine.state.comboCount = 0
startCombo(comboCount) == 0

\* lines 224-282: the scan of move, with its local variables
scanBoard(s, direction, sz) ==
    LET heap0 == clearFlags(s.tiles)
        traversals == getTraversals(direction, sz)
        w0 == [heap |-> heap0,
               tiles |-> [i \in DOMAIN heap0 |-> i],
               grid |-> buildGrid(heap0, sz),
               score |-> s.score,
               comboCount |-> startCombo(s.comboCount),
               mergedPositions |-> {},
               moved |-> FALSE,
               won |-> s.won]
    IN scanRows(w0, traversals.rows, traversals.cols, 1, getVector(direction), sz)

slideAndMerge(s, direction, sz) ==
    LET w == scanBoard(s, direction, sz)
    IN [state |-> [tiles |-> [i \in DOMAIN w.tiles |-> w.heap[w.tiles[i]]],
                   score |-> w.score,
                   moves |-> s.moves,
                   comboCount |-> w.comboCount,
                   gameOver |-> s.gameOver,
                   won |-> w.won],
        moved |-> w.moved]

\* a check that looks for equal neighbours only and takes an empty cell
\* for no move
equalNeighboursOnly(s, sz) ==
    LET grid == buildGrid(s.tiles, sz)
        value(c) == s.tiles[grid[c]].value
    IN \E c \in Cells(sz) :
          /\ grid[c] # null
          /\ \/ /\ c[2] < sz - 1
                /\ grid[<<c[1], c[2] + 1>>] # null
                /\ value(<<c[1], c[2] + 1>>) = value(c)
             \/ /\ c[1] < sz - 1
                /\ grid[<<c[1] + 1, c[2]>>] # null
                /\ value(<<c[1] + 1, c[2]>>) = value(c)

(***************************************************************************)
(* checkAvailableMoves                                                     *)
(***************************************************************************)
checkAvailableMoves(s, sz) ==
    LET grid == buildGrid(s.tiles, sz)
        value(c) == s.tiles[grid[c]].value
    IN \E c \in Cells(sz) :
          \/ grid[c] = null
          \/ /\ c[2] < sz - 1
             /\ grid[<<c[1], c[2] + 1>>] # null
             /\ value(<<c[1], c[2] + 1>>) = value(c)
          \/ /\ c[1] < sz - 1
             /\ grid[<<c[1] + 1, c[2]>>] # null
             /\ value(<<c[1] + 1, c[2]>>) = value(c)

(***************************************************************************)
(* move, as the set of its outcomes: one when nothing moved, one per       *)
(* choice of spawnTile otherwise.  An outcome gives the engine, the        *)
(* counter and the storage after the call, the returned boolean, and slid, *)
(* the GameState as it was after the scan and before line 286.             *)
(***************************************************************************)
\* a move that never finds the game over
gameNeverOver(s, sz) == FALSE

\* an end of game that a game already won never reaches
noMovesLeftUnlessWon(s, sz) == ~checkAvailableMoves(s, sz) /\ ~s.won

\* lines 295-296: const availableMoves = ...; if (!availableMoves)
noMovesLeft(s, sz) == ~checkAvailableMoves(s, sz)

\* lines 295-306, on the state after the spawn
commitGameOver(s, ls, sz) ==
    IF ~noMovesLeft(s, sz) THEN [state |-> s, localStorage |-> ls]
    ELSE
      LET stats == loadStats(ls)
          highestTile == SeqMax([i \in DOMAIN s.tiles |-> s.tiles[i].value])
      IN [state |-> [s EXCEPT !.gameOver = TRUE],
          localStorage |->
             saveStats(ls, [gamesPlayed |-> stats.gamesPlayed + 1,
                            gamesWon |-> stats.gamesWon + (IF s.won THEN 1 ELSE 0),
                            totalScore |-> stats.totalScore + s.score,
                            bestCombo |-> Max(stats.bestCombo, s.comboCount),
                            highestTile |-> Max(stats.highestTile, highestTile)])]

\* a high score that follows the score of every accepted move
highScoreFollows(hs, score) == score

\* lines 290-291: if (score > highScore) engine.highScore = score
raiseHighScore(hs, score) == IF score > hs THEN score ELSE hs

move(s, hs, ls, nid, direction, sz) ==
    LET r == slideAndMerge(s, direction, sz) IN
    IF ~r.moved
    THEN {[state |-> r.state, highScore |-> hs, localStorage |-> ls,
           nextId |-> nid, moved |-> FALSE, slid |-> r.state]}
    ELSE
      LET s1 == [r.state EXCEPT !.moves = @ + 1]
          nid1 == IF spawns(s1.tiles, sz) THEN nid + 1 ELSE nid
          hs1 == raiseHighScore(hs, s1.score)
          ls1 == IF s1.score > hs THEN saveHighScore(ls, s1.score) ELSE ls
      IN {LET c == commitGameOver([s1 EXCEPT !.tiles = tiles2], ls1, sz)
          IN [state |-> c.state, highScore |-> hs1,
              localStorage |-> c.localStorage, nextId |-> nid1,
              moved |-> TRUE, slid |-> r.state] :
            tiles2 \in spawnTile(s1.tiles, sz, nid)}

(***************************************************************************)
(* initGame, as the set of its outcomes.                                   *)
(***************************************************************************)
\* an initGame that calls spawnTile once
initGameOneTile(ls, sz) ==
    {[state |-> [createEmptyState EXCEPT !.tiles = tiles1],
      history |-> <<>>,
      undosRemaining |-> InitialUndos,
      highScore |-> loadHighScore(ls),
      nextId |-> IF spawns(<<>>, sz) THEN 1 ELSE 0] :
        tiles1 \in spawnTile(<<>>, sz, 0)}

initGame(ls, sz) ==
    UNION {
      LET nid1 == IF spawns(<<>>, sz) THEN 1 ELSE 0 IN
      {[state |-> [createEmptyState EXCEPT !.tiles = tiles2],
        history |-> <<>>,
        undosRemaining |-> InitialUndos,
        highScore |-> loadHighScore(ls),
        nextId |-> IF spawns(tiles1, sz) THEN nid1 + 1 ELSE nid1] :
          tiles2 \in spawnTile(tiles1, sz, nid1)} :
      tiles1 \in spawnTile(<<>>, sz, 0)}

\* JSON.parse(JSON.stringify(state)): numbers, booleans, arrays and plain
\* objects come back as they went in, field by field; a flag that is
\* absent stays absent
deepCopy(s) ==
    [tiles |-> [i \in DOMAIN s.tiles |->
                  [id |-> s.tiles[i].id, value |-> s.tiles[i].value,
                   row |-> s.tiles[i].row, col |-> s.tiles[i].col,
                   isNew |-> s.tiles[i].isNew,
                   justMerged |-> s.tiles[i].justMerged]],
     score |-> s.score, moves |-> s.moves, comboCount |-> s.comboCount,
     gameOver |-> s.gameOver, won |-> s.won]

\* a history that evicts its newest snapshot: pop() in the place of shift()
pushHistoryDropNewest(h, oldState) ==
    LET h1 == Append(h, oldState) IN
    IF Len(h1) > HistoryCapacity THEN SubSeq(h1, 1, Len(h1) - 1) ELSE h1

\* engine.history.push(oldState); if (length > 10) engine.history.shift()
pushHistory(h, oldState) ==
    LET h1 == Append(h, oldState) IN
    IF Len(h1) > HistoryCapacity THEN Tail(h1) ELSE h1

freshStorage ==
    [zipperMergeHighScore |-> absent, hasStats |-> FALSE,
     zipperMergeStats |-> defaultStats]

(***************************************************************************)
(* The game as the App plays it.                                           *)
(***************************************************************************)
Init ==
    /\ size = GameSize
    /\ localStorage = freshStorage
    /\ \E e \in initGame(freshStorage, GameSize) :
          /\ state = e.state
          /\ history = e.history
          /\ undosRemaining = e.undosRemaining
          /\ highScore = e.highScore
          /\ nextId = e.nextId
    /\ moved = FALSE
    /\ accepted = 0
    /\ last = [op |-> "initGame", direction |-> "none", done |-> TRUE,
               before |-> createEmptyState, slid |-> createEmptyState,
               scheduled |-> "none"]

\* line 1427: const [soundEnabled, setSoundEnabled] = useState(true).  The
\* sound is left switched on.
soundEnabled == TRUE

\* lines 1507-1511: the sound handleMove schedules after an accepted move
scheduledSound(s) ==
    IF s.won /\ soundEnabled THEN "playWin"
    ELSE IF s.gameOver /\ soundEnabled THEN "playGameOver"
    ELSE "none"

\* a handler that takes a won game for a finished one
blockedOnceWon(s) == s.gameOver \/ s.won

\* a handler without the guard of line 1468
neverBlocked(s) == FALSE

\* line 1468: if (engine.state.gameOver) return
blocked(s) == s.gameOver

\* the bound MaxMoves caps the accepted moves: a call of move that moves a
\* tile is taken only while accepted < MaxMoves
handleMove(direction) ==
    /\ IF blocked(state)
       THEN /\ UNCHANGED <<size, state, history, undosRemaining, highScore,
                           nextId, localStorage, moved, accepted>>
            /\ last' = [op |-> "handleMove", direction |-> direction,
                        done |-> FALSE, before |-> state, slid |-> state,
                        scheduled |-> "none"]
       ELSE LET oldState == deepCopy(state) IN
            /\ slideAndMerge(state, direction, size).moved => accepted < MaxMoves
            /\ \E o \in move(state, highScore, localStorage, nextId, direction, size) :
               /\ state' = o.state
               /\ highScore' = o.highScore
               /\ localStorage' = o.localStorage
               /\ nextId' = o.nextId
               /\ moved' = o.moved
               /\ accepted' = IF o.moved THEN accepted + 1 ELSE accepted
               /\ history' = IF o.moved THEN pushHistory(history, oldState)
                                        ELSE history
               /\ last' = [op |-> "handleMove", direction |-> direction,
                           done |-> TRUE, before |-> state, slid |-> o.slid,
                           scheduled |-> IF o.moved THEN scheduledSound(o.state)
                                                    ELSE "none"]
               /\ UNCHANGED <<size, undosRemaining>>

\* a history read from its old end: shift() in the place of pop()
shiftHistory(h) == [value |-> h[1], rest |-> SubSeq(h, 2, Len(h))]

\* engine.history.pop(): the last snapshot and the history without it
popHistory(h) == [value |-> h[Len(h)], rest |-> SubSeq(h, 1, Len(h) - 1)]

\* an undo that does not look at the counter
canUndoWhileHistory(undos, h) == Len(h) > 0

\* line 1532: engine.undosRemaining > 0 && engine.history.length > 0
canUndo(undos, h) == undos > 0 /\ Len(h) > 0

\* an undo that takes one off the counter before it looks at the guard
handleUndoCountsRefusals ==
    /\ IF canUndo(undosRemaining, history)
       THEN /\ state' = popHistory(history).value
            /\ history' = popHistory(history).rest
       ELSE UNCHANGED <<state, history>>
    /\ undosRemaining' = undosRemaining - 1
    /\ last' = [op |-> "handleUndo", direction |-> "none",
                done |-> canUndo(undosRemaining, history),
                before |-> state, slid |-> state, scheduled |-> "none"]
    /\ UNCHANGED <<size, highScore, nextId, localStorage, moved, accepted>>

handleUndo ==
    /\ IF canUndo(undosRemaining, history)
       THEN /\ state' = popHistory(history).value
            /\ history' = popHistory(history).rest
            /\ undosRemaining' = undosRemaining - 1
       ELSE UNCHANGED <<state, history, undosRemaining>>
    /\ last' = [op |-> "handleUndo", direction |-> "none",
                done |-> canUndo(undosRemaining, history),
                before |-> state, slid |-> state, scheduled |-> "none"]
    /\ UNCHANGED <<size, highScore, nextId, localStorage, moved, accepted>>

handleRestart ==
    LET stats == loadStats(localStorage)
        highestTile == SeqMax([i \in DOMAIN state.tiles |-> state.tiles[i].value])
        ls1 == saveStats(localStorage,
                 [gamesPlayed |-> stats.gamesPlayed + 1,
                  gamesWon |-> stats.gamesWon + (IF state.won THEN 1 ELSE 0),
                  totalScore |-> stats.totalScore + state.score,
                  bestCombo |-> Max(stats.bestCombo, state.comboCount),
                  highestTile |-> Max(stats.highestTile, highestTile)])
    IN /\ stats.gamesPlayed < MaxGames
       /\ localStorage' = ls1
       /\ \E e \in initGame(ls1, size) :
             /\ state' = e.state
             /\ history' = e.history
             /\ undosRemaining' = e.undosRemaining
             /\ highScore' = e.highScore
             /\ nextId' = e.nextId
       /\ last' = [op |-> "handleRestart", direction |-> "none", done |-> TRUE,
                   before |-> createEmptyState, slid |-> createEmptyState,
                   scheduled |-> "none"]
       /\ UNCHANGED <<size, moved, accepted>>

Next ==
    \/ \E direction \in Directions : handleMove(direction)
    \/ handleUndo

Spec == Init /\ [][Next]_vars

(***************************************************************************)
(* The game with the restart button.  The engine starts as it is after     *)
(* initGame and one accepted move, with one accepted move left under the   *)
(* bound MaxMoves, so that a game can end and be restarted; handleRestart  *)
(* is taken while the persisted gamesPlayed is below MaxGames.             *)
(***************************************************************************)
InitRestart ==
    /\ size = GameSize
    /\ \E e \in initGame(freshStorage, GameSize), direction \in Directions :
          \E o \in move(e.state, e.highScore, freshStorage, e.nextId,
                        direction, GameSize) :
             /\ o.moved
             /\ state = o.state
             /\ highScore = o.highScore
             /\ localStorage = o.localStorage
             /\ nextId = o.nextId
             /\ history = pushHistory(e.history, deepCopy(e.state))
             /\ undosRemaining = e.undosRemaining
             /\ last = [op |-> "handleMove", direction |-> direction,
                        done |-> TRUE, before |-> e.state, slid |-> o.slid,
                        scheduled |-> scheduledSound(o.state)]
    /\ moved = TRUE
    /\ accepted = MaxMoves - 1

NextRestart ==
    \/ \E direction \in Directions : handleMove(direction)
    \/ handleUndo
    \/ handleRestart

SpecRestart == InitRestart /\ [][NextRestart]_vars

(***************************************************************************)
(* move and undo on given boards.  The engine holds a seeded board on the  *)
(* 4x4 grid that move has by default, and handleMove / handleUndo are      *)
(* applied to it.  The seeded boards are                                   *)
(*   - one line of OpenValues and gaps in row 0, the rest empty;           *)
(*   - the same line in column 0, the rest empty;                          *)
(*   - one line of SeedValues and gaps in row 0, above three full rows of  *)
(*     8 and 16 in which nothing can move sideways or merge;               *)
(*   - the full boards of SeedValues in which two rows alternate and no    *)
(*     two neighbours are equal (boards without available moves).          *)
(* won is set when the board holds a tile of the win value or more.  The   *)
(* seeded tiles carry the ids 0 .. n-1 in row-major order and nextId is n. *)
(* The seeded board stands for a game with one accepted move left under    *)
(* the bound MaxMoves: one accepted move is applied to every seeded board, *)
(* and it can be undone.                                                   *)
(***************************************************************************)
\* move = (engine, direction, size = 4); const boardSize = 4
DefaultSize == 4

SeedValues == {2, 1024, 2048}
OpenValues == {2, 1024}

Lines(sz, values) == [0..(sz - 1) -> {0} \cup values]

filler(r, c) == IF (r + c) % 2 = 0 THEN 8 ELSE 16

rowBoard(line, sz) == [c \in Cells(sz) |-> IF c[1] = 0 THEN line[c[2]] ELSE 0]
colBoard(line, sz) == [c \in Cells(sz) |-> IF c[2] = 0 THEN line[c[1]] ELSE 0]
packedBoard(line, sz) ==
    [c \in Cells(sz) |-> IF c[1] = 0 THEN line[c[2]] ELSE filler(c[1], c[2])]

\* the full rows without two equal neighbours, and the boards in which two
\* of them alternate and no tile has an equal neighbour below
stuckRows(sz) ==
    {l \in [0..(sz - 1) -> SeedValues] : \A c \in 0..(sz - 2) : l[c] # l[c + 1]}

stuckBoards(sz) ==
    {[c \in Cells(sz) |-> IF c[1] % 2 = 0 THEN rs[1][c[2]] ELSE rs[2][c[2]]] :
        rs \in {x \in stuckRows(sz) \X stuckRows(sz) :
                  \A c \in 0..(sz - 1) : x[1][c] # x[2][c]}}

SeedBoards(sz) ==
    ({rowBoard(l, sz) : l \in Lines(sz, OpenValues)}
       \cup {colBoard(l, sz) : l \in Lines(sz, OpenValues)}
       \cup {packedBoard(l, sz) : l \in Lines(sz, SeedValues)}
       \cup stuckBoards(sz))
    \ {[c \in Cells(sz) |-> 0]}

RECURSIVE seedFrom(_, _, _, _)
\* the tiles of a board in row-major order, numbered from 0
seedFrom(b, k, sz, acc) ==
    IF k >= sz * sz THEN acc
    ELSE LET c == <<k \div sz, k % sz>> IN
         seedFrom(b, k + 1, sz,
                  IF b[c] = 0 THEN acc
                  ELSE Append(acc, [id |-> Len(acc), value |-> b[c],
                                    row |-> c[1], col |-> c[2],
                                    isNew |-> FALSE, justMerged |-> FALSE]))

seedTiles(b, sz) == seedFrom(b, 0, sz, <<>>)

InitSeeded ==
    /\ size = DefaultSize
    /\ localStorage = freshStorage
    /\ \E b \in SeedBoards(DefaultSize) :
          /\ state = [createEmptyState EXCEPT
                        !.tiles = seedTiles(b, DefaultSize),
                        !.won = \E c \in Cells(DefaultSize) : b[c] >= WinValue]
          /\ nextId = Len(seedTiles(b, DefaultSize))
    /\ history = <<>>
    /\ undosRemaining = InitialUndos
    /\ highScore = 0
    /\ moved = FALSE
    /\ accepted = MaxMoves - 1
    /\ last = [op |-> "seed", direction |-> "none", done |-> TRUE,
               before |-> createEmptyState, slid |-> createEmptyState,
               scheduled |-> "none"]

SpecSeeded == InitSeeded /\ [][Next]_vars

(***************************************************************************)
(* The history at its capacity.  The engine is seeded as it is after k     *)
(* accepted moves without an undo: state.moves is k, nextId is k above its *)
(* value after initGame, and the history holds the snapshots of the last   *)
(* min(k, 10) moves, the snapshot of move j carrying moves = j - 1.  The   *)
(* board, and the board of every snapshot, is a board of initGame.  One    *)
(* accepted move is left under the bound MaxMoves.  k is 1 (a history that *)
(* the undos empty) or around the capacity of the history.                 *)
(***************************************************************************)
SeedMoves == {1, HistoryCapacity - 1, HistoryCapacity, HistoryCapacity + 2}

seedHistory(s, k) ==
    LET n == IF k > HistoryCapacity THEN HistoryCapacity ELSE k IN
    [i \in 1..n |-> [s EXCEPT !.moves = k - n + i - 1]]

InitHistory ==
    /\ size = GameSize
    /\ localStorage = freshStorage
    /\ \E e \in initGame(freshStorage, GameSize), k \in SeedMoves :
          /\ state = [e.state EXCEPT !.moves = k]
          /\ history = seedHistory(e.state, k)
          /\ undosRemaining = e.undosRemaining
          /\ highScore = e.highScore
          /\ nextId = e.nextId + k
    /\ moved = FALSE
    /\ accepted = MaxMoves - 1
    /\ last = [op |-> "seed", direction |-> "none", done |-> TRUE,
               before |-> createEmptyState, slid |-> createEmptyState,
               scheduled |-> "none"]

SpecHistory == InitHistory /\ [][Next]_vars

(***************************************************************************)
(* Vocabulary of the properties.                                           *)
(***************************************************************************)
\* a tile without its transient flags
core(t) == [id |-> t.id, value |-> t.value, row |-> t.row, col |-> t.col]
coreTiles(tiles) == [i \in DOMAIN tiles |-> core(tiles[i])]
coreSet(tiles) == {core(tiles[i]) : i \in DOMAIN tiles}

\* a GameState without the transient flags of its tiles
coreState(s) == [s EXCEPT !.tiles = coreTiles(s.tiles)]

RECURSIVE SumValues(_)
SumValues(tiles) ==
    IF tiles = <<>> THEN 0 ELSE Head(tiles).value + SumValues(Tail(tiles))

tilesAt(tiles, r, c) == {i \in DOMAIN tiles : tiles[i].row = r /\ tiles[i].col = c}
justMergedTiles(tiles) == {i \in DOMAIN tiles : tiles[i].justMerged}

\* the last operation was a move command that reached move
MoveCalled == last.op = "handleMove" /\ last.done
MoveAccepted == MoveCalled /\ moved
MoveRejected == MoveCalled /\ ~moved

\* C1: in every reachable state no two tiles of engine.state.tiles are on
\* the same (row, col)
NoTwoTilesShareCell ==
    \A i, j \in DOMAIN state.tiles :
       i # j => ~(state.tiles[i].row = state.tiles[j].row
                  /\ state.tiles[i].col = state.tiles[j].col)

\* a move that merged was accepted after an undo had been used
C1_Witness ==
    /\ MoveAccepted
    /\ state.comboCount > 0
    /\ undosRemaining < InitialUndos
    /\ Len(state.tiles) >= 2

\* C2: every merge of a move consumes two tiles of the collection and
\* leaves one tile of the doubled value in it: after the scan the
\* collection has comboCount tiles less, it holds comboCount merged tiles,
\* and the pairs are replaced value for value (the sum of the values is
\* the same)
MergeConsumesTwoLeavesOne ==
    MoveCalled =>
       /\ Len(last.slid.tiles) = Len(last.before.tiles) - last.slid.comboCount
       /\ Cardinality(justMergedTiles(last.slid.tiles)) = last.slid.comboCount
       /\ SumValues(last.slid.tiles) = SumValues(last.before.tiles)

\* the board of the C3 scenario: row 0 holds four tiles of value 2
rowOfFourTwos(tiles) ==
    /\ \A c \in 0..3 : \E i \in tilesAt(tiles, 0, c) : tiles[i].value = 2
    /\ \A i \in DOMAIN tiles : tiles[i].row = 0 => tiles[i].value = 2

\* C3: move 'left' on a row of four 2s leaves two tiles of value 4 in the
\* row, at (0,0) and (0,1), with comboCount = 2
FourTwosGiveTwoFours ==
    (MoveCalled /\ size = 4 /\ last.direction = "left"
       /\ rowOfFourTwos(last.before.tiles)) =>
       LET t == last.slid.tiles
           row0 == {i \in DOMAIN t : t[i].row = 0}
       IN /\ Cardinality(row0) = 2
          /\ \A i \in row0 : t[i].value = 4
          /\ {t[i].col : i \in row0} = {0, 1}
          /\ last.slid.comboCount = 2

\* some tile has, next to it in the direction, a cell of the grid that is
\* empty or holds a tile of its value: something can slide or merge
canAct(tiles, direction, sz) ==
    \E i \in DOMAIN tiles :
       LET n == <<tiles[i].row + getVector(direction).row,
                  tiles[i].col + getVector(direction).col>>
       IN /\ n \in Cells(sz)
          /\ \/ tilesAt(tiles, n[1], n[2]) = {}
             \/ \E j \in tilesAt(tiles, n[1], n[2]) : tiles[j].value = tiles[i].value

\* C4: a move in a direction in which nothing can slide or merge returns
\* false and leaves the score, the move counter, the tiles (ids, positions,
\* values) and the history as they were; nothing is spawned
RejectedMoveChangesNothing ==
    [][(last'.op = "handleMove" /\ last'.done
          /\ ~canAct(state.tiles, last'.direction, size))
        => /\ moved' = FALSE
           /\ state'.score = state.score
           /\ state'.moves = state.moves
           /\ coreTiles(state'.tiles) = coreTiles(state.tiles)
           /\ history' = history
           /\ nextId' = nextId]_vars

\* a move was rejected on a board with a history, in a direction in which
\* nothing could act
C4_Witness ==
    /\ MoveRejected
    /\ ~canAct(last.before.tiles, last.direction, size)
    /\ Len(history) > 0

\* C5: an undo right after an accepted move, with undos remaining, gives
\* back the GameState of before the move (transient flags apart) and
\* takes one undo
UndoRestoresPreMoveState ==
    [][(MoveAccepted /\ undosRemaining > 0 /\ last'.op = "handleUndo")
        => /\ coreState(state') = coreState(last.before)
           /\ undosRemaining' = undosRemaining - 1]_vars

\* the second of two accepted moves has been undone
C5_Witness ==
    /\ last.op = "handleUndo" /\ last.done
    /\ last.before.moves = 2
    /\ state.moves = 1
    /\ Len(history) = 1

\* C6 as stated: once gameOver is true it stays true under every
\* operation of the game
GameOverNeverReset == [][state.gameOver => state'.gameOver]_vars

\* C6, amended: on a game that is over a move command changes nothing, so
\* gameOver stays true under moves; an undo puts back a snapshot, and the
\* snapshot's gameOver is false
GameOverStaysUnderMoves ==
    [][state.gameOver =>
         /\ last'.op = "handleMove" => (state' = state /\ history' = history)
         /\ (last'.op = "handleUndo" /\ last'.done) => ~state'.gameOver]_vars

\* a move command arrived on a game that is over
C6_Witness == state.gameOver /\ last.op = "handleMove" /\ ~last.done

\* C7 as stated: once won is true it stays true under every operation
WonNeverReverts == [][state.won => state'.won]_vars

\* C7, amended: after a move command won is true exactly when it was true
\* before or a merge of this move made a tile of the win value; an undo
\* puts back the won flag of the snapshot
WonUnderMoves ==
    [][/\ last'.op = "handleMove" =>
            (state'.won <=>
               \/ state.won
               \/ /\ last'.done
                  /\ \E i \in justMergedTiles(last'.slid.tiles) :
                        last'.slid.tiles[i].value = WinValue)
       /\ (last'.op = "handleUndo" /\ last'.done) =>
            state'.won = history[Len(history)].won]_vars

\* a merge made the win value and set won
C7_Witness ==
    /\ MoveAccepted
    /\ ~last.before.won
    /\ state.won
    /\ \E i \in DOMAIN state.tiles : state.tiles[i].value = WinValue

\* C8 as stated: the score never decreases, whatever the operation
ScoreNeverDecreases == [][state'.score >= state.score]_vars

\* C8, amended: the score never decreases under move commands; an undo
\* puts back the score of the snapshot it pops
ScoreUnderMoves ==
    [][/\ last'.op = "handleMove" => state'.score >= state.score
       /\ (last'.op = "handleUndo" /\ last'.done) =>
            state'.score = history[Len(history)].score]_vars

\* a move merged and raised the score
C8_Witness == MoveAccepted /\ state.score > last.before.score

\* C9: on a board on which checkAvailableMoves returns false, move returns
\* false in whatever direction it is called: no tile slides, nothing merges
StuckBoardRejectsEveryMove ==
    (MoveCalled /\ ~checkAvailableMoves(last.before, size)) =>
       /\ ~moved
       /\ last.slid.comboCount = 0
       /\ coreTiles(last.slid.tiles) = coreTiles(last.before.tiles)

\* move was called on a board without available moves
C9_Witness ==
    /\ MoveCalled
    /\ ~checkAvailableMoves(last.before, size)
    /\ Len(last.before.tiles) = size * size

\* the board is full and no two neighbours have the same value
boardFull(tiles, sz) == \A c \in Cells(sz) : tilesAt(tiles, c[1], c[2]) # {}

equalNeighbours(tiles) ==
    \E i, j \in DOMAIN tiles :
       /\ tiles[i].value = tiles[j].value
       /\ \/ tiles[i].row = tiles[j].row /\ tiles[i].col + 1 = tiles[j].col
          \/ tiles[i].col = tiles[j].col /\ tiles[i].row + 1 = tiles[j].row

terminal(tiles, sz) == boardFull(tiles, sz) /\ ~equalNeighbours(tiles)

\* C10: after an accepted move gameOver is true exactly when the board is
\* full without equal neighbours, whatever won is; and in every state
\* gameOver implies such a board
GameOverIffTerminal ==
    /\ MoveAccepted => (state.gameOver <=> terminal(state.tiles, size))
    /\ state.gameOver => terminal(state.tiles, size)

\* an accepted move ended a game that was won
C10_Witness == MoveAccepted /\ state.gameOver /\ state.won

\* C11: the history never holds more than 10 snapshots; an accepted move
\* appends the snapshot of the state it was called on, and when the
\* history was full the oldest snapshot is the one that leaves: the
\* others keep their order
HistoryKeepsLastTen ==
    [][/\ Len(history') <= HistoryCapacity
       /\ (last'.op = "handleMove" /\ last'.done /\ moved') =>
            LET kept == IF Len(history) = HistoryCapacity
                        THEN SubSeq(history, 2, Len(history))
                        ELSE history
            IN /\ Len(history') = Len(kept) + 1
               /\ \A i \in 1..Len(kept) : history'[i] = kept[i]
               /\ coreState(history'[Len(history')]) = coreState(state)]_vars

\* an accepted move found the history full and evicted the oldest snapshot
C11_Witness ==
    /\ MoveAccepted
    /\ Len(history) = HistoryCapacity
    /\ last.before.moves >= HistoryCapacity
    /\ history[1].moves = last.before.moves - HistoryCapacity + 1

\* C12: undosRemaining is 3 when the game starts, every undo that
\* restores a snapshot takes exactly 1 off it, no other operation changes
\* it, and it stays within 0..3
UndosOnlyCountDown ==
    /\ undosRemaining = InitialUndos
    /\ [][/\ undosRemaining' \in 0..InitialUndos
          /\ IF last'.op = "handleUndo" /\ Len(history') < Len(history)
             THEN undosRemaining' = undosRemaining - 1
             ELSE undosRemaining' = undosRemaining]_vars

\* the three undos of the game are used and a fourth request was refused
\* although the history still holds snapshots
C12_Witness ==
    /\ undosRemaining = 0
    /\ last.op = "handleUndo" /\ ~last.done
    /\ Len(history) > 0

\* C13: an undo requested with undosRemaining = 0 or with an empty history
\* changes nothing: the GameState, the history and undosRemaining are as
\* they were
RefusedUndoChangesNothing ==
    [][(last'.op = "handleUndo" /\ (undosRemaining = 0 \/ Len(history) = 0))
        => /\ state' = state
           /\ history' = history
           /\ undosRemaining' = undosRemaining]_vars

\* an undo was requested on an empty history while undos were left, after
\* an earlier undo had emptied it
C13_Witness ==
    /\ last.op = "handleUndo" /\ ~last.done
    /\ history = <<>>
    /\ undosRemaining > 0
    /\ undosRemaining < InitialUndos

\* C14 as stated: a call of move that returns false leaves every field of
\* the GameState (tiles, score, moves, comboCount, gameOver, won) as it was
RejectedMoveLeavesStateUntouched ==
    [][(last'.op = "handleMove" /\ last'.done /\ ~moved')
        => coreState(state') = coreState(state)]_vars

\* C14, amended: a call of move that returns true adds 1 to moves, spawns
\* a tile and has its snapshot pushed; a call that returns false leaves the
\* tiles (ids, values, positions), score, moves, gameOver and won, the
\* history, nextId, the high score and the storage as they were, but it
\* has reset comboCount to 0 and cleared the flags isNew and justMerged
MoveAllOrNothingButCombo ==
    [][(last'.op = "handleMove" /\ last'.done) =>
         IF moved'
         THEN /\ state'.moves = state.moves + 1
              /\ nextId' = nextId + 1
              /\ Len(state'.tiles) = Len(last'.slid.tiles) + 1
              /\ history' # history
         ELSE /\ coreTiles(state'.tiles) = coreTiles(state.tiles)
              /\ state'.score = state.score
              /\ state'.moves = state.moves
              /\ state'.gameOver = state.gameOver
              /\ state'.won = state.won
              /\ state'.comboCount = 0
              /\ \A i \in DOMAIN state'.tiles :
                    ~state'.tiles[i].isNew /\ ~state'.tiles[i].justMerged
              /\ history' = history
              /\ nextId' = nextId
              /\ highScore' = highScore
              /\ localStorage' = localStorage]_vars

\* a move was rejected right after a move that had merged: comboCount went
\* from 1 to 0 while the board stayed
C14_Witness ==
    /\ MoveRejected
    /\ last.before.comboCount > 0
    /\ state.comboCount = 0
    /\ coreTiles(state.tiles) = coreTiles(last.before.tiles)

RECURSIVE isPowerOfTwo(_)
isPowerOfTwo(n) ==
    IF n < 2 THEN FALSE
    ELSE IF n = 2 THEN TRUE
    ELSE n % 2 = 0 /\ isPowerOfTwo(n \div 2)

\* C15: in every reachable state every tile value is a power of 2 and at
\* least 2
TileValuesArePowersOfTwo ==
    \A i \in DOMAIN state.tiles : isPowerOfTwo(state.tiles[i].value)

\* a merge of two spawned 4s has made an 8
C15_Witness ==
    /\ MoveAccepted
    /\ \E i \in justMergedTiles(state.tiles) : state.tiles[i].value = 8

\* the values of a set of tiles of an array, summed
RECURSIVE SumOver(_, _)
SumOver(tiles, idx) ==
    IF idx = {} THEN 0
    ELSE LET i == CHOOSE j \in idx : TRUE
         IN tiles[i].value + SumOver(tiles, idx \ {i})

pairOfTwos(tiles) ==
    /\ Len(tiles) = 2
    /\ \A i \in DOMAIN tiles : tiles[i].value = 2 /\ tiles[i].row = 0
    /\ {tiles[i].col : i \in DOMAIN tiles} = {0, 1}

\* C17: on a 4x4 grid whose only tiles are two 2s at (0,0) and (0,1), move
\* 'left' returns true, leaves one tile of value 4 at (0,0) from the pair,
\* adds 4 to the score, sets comboCount to 1 and adds exactly one new tile,
\* of value 2 or 4, in a cell other than (0,0)
PairOfTwosMergesLeft ==
    (MoveCalled /\ size = 4 /\ last.direction = "left"
       /\ pairOfTwos(last.before.tiles)) =>
       /\ moved
       /\ Len(last.slid.tiles) = 1
       /\ last.slid.tiles[1].value = 4
       /\ last.slid.tiles[1].row = 0 /\ last.slid.tiles[1].col = 0
       /\ state.score = last.before.score + 4
       /\ state.comboCount = 1
       /\ Len(state.tiles) = 2
       /\ core(state.tiles[1]) = core(last.slid.tiles[1])
       /\ state.tiles[2].isNew
       /\ state.tiles[2].value \in {2, 4}
       /\ <<state.tiles[2].row, state.tiles[2].col>> # <<0, 0>>
       /\ Cardinality({i \in DOMAIN state.tiles : state.tiles[i].isNew}) = 1

\* the pair was merged and the new tile, a 4, came on the cell the moving
\* tile had left
C17_Witness ==
    /\ MoveAccepted /\ size = 4 /\ last.direction = "left"
    /\ pairOfTwos(last.before.tiles)
    /\ Len(state.tiles) = 2
    /\ state.tiles[2].value = 4
    /\ state.tiles[2].row = 0 /\ state.tiles[2].col = 1

\* C18: an accepted move adds exactly 1 to state.moves and spawns exactly
\* one tile: the tiles of the scan are kept, the new tile is on a cell that
\* no tile held after the scan, its value is 2 or 4, and it is the only
\* tile flagged isNew
AcceptedMoveSpawnsOneTile ==
    MoveAccepted =>
       LET slid == last.slid.tiles
           n == Len(state.tiles)
       IN /\ state.moves = last.before.moves + 1
          /\ n = Len(slid) + 1
          /\ \A i \in 1..Len(slid) : state.tiles[i] = slid[i]
          /\ tilesAt(slid, state.tiles[n].row, state.tiles[n].col) = {}
          /\ <<state.tiles[n].row, state.tiles[n].col>> \in Cells(size)
          /\ state.tiles[n].value \in {2, 4}
          /\ {i \in DOMAIN state.tiles : state.tiles[i].isNew} = {n}

\* the new tile, a 4, filled the last empty cell of the board
C18_Witness ==
    /\ MoveAccepted
    /\ Len(state.tiles) = size * size
    /\ state.tiles[Len(state.tiles)].value = 4
    /\ state.tiles[Len(state.tiles)].isNew

\* C19: after every call of move, accepted or rejected, state.comboCount is
\* the number of merges of that call, each of which takes one tile out of
\* the collection and adds to the score: it is the number of tiles the scan
\* consumed, whatever comboCount was before, it is 0 exactly when the score
\* did not grow, and it is 0 after a rejected attempt
ComboCountsMergesOfThisMove ==
    MoveCalled =>
       /\ state.comboCount = Len(last.before.tiles) - Len(last.slid.tiles)
       /\ state.comboCount = last.slid.comboCount
       /\ (state.comboCount = 0) <=> (state.score = last.before.score)
       /\ ~moved => state.comboCount = 0

\* a move with one merge followed a move with one merge: the count is 1
\* again, not 2
C19_Witness ==
    /\ MoveAccepted
    /\ last.before.comboCount = 1
    /\ state.comboCount = 1
    /\ Len(last.slid.tiles) = Len(last.before.tiles) - 1

\* C20: during one move each destination cell absorbs at most one merge and
\* no result of a merge is merged again: the merges of the scan have
\* pairwise different destination cells, every tile a merge made is still
\* the entry of the grid at its destination when the scan ends, and every
\* tile of the collection has the value it had before the move, or twice
\* that value if it is flagged justMerged
OneMergePerCellAndTile ==
    MoveCalled =>
       LET w == scanBoard(last.before, last.direction, size)
           before == last.before.tiles
           slid == last.slid.tiles
       IN /\ Cardinality(w.mergedPositions) = state.comboCount
          /\ Len(w.heap) = Len(before) + state.comboCount
          /\ \A k \in (Len(before) + 1)..Len(w.heap) :
                /\ <<w.heap[k].row, w.heap[k].col>> \in w.mergedPositions
                /\ w.grid[<<w.heap[k].row, w.heap[k].col>>] = k
          /\ \A i \in DOMAIN slid :
                \E j \in DOMAIN before :
                   /\ before[j].id = slid[i].id
                   /\ slid[i].value = IF slid[i].justMerged
                                      THEN 2 * before[j].value
                                      ELSE before[j].value
          /\ \A i \in justMergedTiles(slid) :
                /\ <<slid[i].row, slid[i].col>> \in w.mergedPositions
                /\ tilesAt(slid, slid[i].row, slid[i].col) = {i}

\* a tile that kept its value ended the scan in the line of a tile of the
\* same value that a merge of this move had made, and did not merge with it
C20_Witness ==
    /\ MoveAccepted
    /\ state.comboCount = 1
    /\ \E i \in justMergedTiles(last.slid.tiles), j \in DOMAIN last.slid.tiles :
          /\ ~last.slid.tiles[j].justMerged
          /\ last.slid.tiles[j].value = last.slid.tiles[i].value
          /\ \E t \in DOMAIN last.before.tiles :
                /\ last.before.tiles[t].id = last.slid.tiles[j].id
                /\ last.before.tiles[t].value = last.slid.tiles[j].value
          /\ \/ /\ last.slid.tiles[j].row = last.slid.tiles[i].row
                /\ last.direction \in {"left", "right"}
             \/ /\ last.slid.tiles[j].col = last.slid.tiles[i].col
                /\ last.direction \in {"up", "down"}

\* C21: reaching the win value does not end the game: a move command given
\* while won is true and gameOver is false reaches move, and move slides,
\* merges, scores, counts and spawns as it does on the same board with won
\* false; gameOver is set by an accepted move exactly when the board has
\* no available move, whatever won is
WinDoesNotEndGame ==
    /\ (last.op = "handleMove" /\ last.before.won /\ ~last.before.gameOver) =>
          LET r == slideAndMerge([last.before EXCEPT !.won = FALSE],
                                 last.direction, size)
          IN /\ last.done
             /\ moved = r.moved
             /\ state.won
             /\ [last.slid EXCEPT !.won = FALSE] = [r.state EXCEPT !.won = FALSE]
             /\ state.moves = last.before.moves + (IF moved THEN 1 ELSE 0)
             /\ Len(state.tiles) = Len(last.slid.tiles) + (IF moved THEN 1 ELSE 0)
    /\ MoveAccepted => (state.gameOver <=> noMovesLeft(state, size))
    /\ (MoveAccepted /\ state.won /\ ~terminal(state.tiles, size)) =>
          ~state.gameOver

\* a move that merged was accepted in a game that was already won, and the
\* game goes on
C21_Witness ==
    /\ MoveAccepted
    /\ last.before.won
    /\ state.comboCount > 0
    /\ ~state.gameOver
    /\ state.moves = last.before.moves + 1

\* C22: the victory sound is scheduled at most once per game: an accepted
\* move in a game that was already won (won true before the move) does
\* not schedule playWin again
WinSoundOnlyOnce ==
    (MoveAccepted /\ last.before.won) => last.scheduled # "playWin"

\* C23: the engine initGame returns, at the start and at a restart, has
\* exactly two tiles, in two distinct cells of the grid, each of value 2
\* or 4, score 0, moves 0, comboCount 0, gameOver false, won false, an
\* empty history and undosRemaining 3
InitGameGivesFreshEngine ==
    last.op \in {"initGame", "handleRestart"} =>
       /\ Len(state.tiles) = 2
       /\ <<state.tiles[1].row, state.tiles[1].col>>
             # <<state.tiles[2].row, state.tiles[2].col>>
       /\ \A i \in DOMAIN state.tiles :
             /\ <<state.tiles[i].row, state.tiles[i].col>> \in Cells(size)
             /\ state.tiles[i].value \in {2, 4}
       /\ state.score = 0
       /\ state.moves = 0
       /\ state.comboCount = 0
       /\ ~state.gameOver
       /\ ~state.won
       /\ history = <<>>
       /\ undosRemaining = InitialUndos

\* the second restart, after a game that had scored, gave a board with a 2
\* and a 4
C23_Witness ==
    /\ last.op = "handleRestart"
    /\ loadStats(localStorage).gamesPlayed = 2
    /\ loadStats(localStorage).totalScore > 0
    /\ {state.tiles[i].value : i \in DOMAIN state.tiles} = {2, 4}

\* the distance of a tile from the edge the move goes to, and the tiles of
\* one line of the move
fromEdge(t, direction, sz) ==
    CASE direction = "left" -> t.col
      [] direction = "right" -> sz - 1 - t.col
      [] direction = "up" -> t.row
      [] OTHER -> sz - 1 - t.row

sameLine(t, u, direction) ==
    IF direction \in {"left", "right"} THEN t.row = u.row ELSE t.col = u.col

tileIds(tiles) == {tiles[i].id : i \in DOMAIN tiles}

\* C24: within one game the ids of engine.state.tiles are pairwise
\* distinct, also after an undo and further spawns (every id in the state
\* and in the history is below nextId, and a spawned tile takes the id
\* nextId had); the scan makes no id: a tile that is not flagged justMerged
\* has the id and value it had before, and a justMerged tile has the id of
\* a tile of half its value that stood nearer to the target edge than a
\* tile of the same line and value that is gone
TileIdsAreUnique ==
    /\ \A i, j \in DOMAIN state.tiles :
          i # j => state.tiles[i].id # state.tiles[j].id
    /\ \A i \in DOMAIN state.tiles : state.tiles[i].id \in 0..(nextId - 1)
    /\ \A k \in DOMAIN history :
          tileIds(history[k].tiles) \subseteq 0..(nextId - 1)
    /\ MoveCalled =>
          LET before == last.before.tiles
              slid == last.slid.tiles
              gone == {j \in DOMAIN before : before[j].id \notin tileIds(slid)}
          IN /\ tileIds(slid) \subseteq tileIds(before)
             /\ \A i \in DOMAIN slid :
                   \E j \in DOMAIN before :
                      /\ before[j].id = slid[i].id
                      /\ IF ~slid[i].justMerged
                         THEN before[j].value = slid[i].value
                         ELSE /\ 2 * before[j].value = slid[i].value
                              /\ \E g \in gone :
                                    /\ sameLine(before[g], before[j], last.direction)
                                    /\ before[g].value = before[j].value
                                    /\ fromEdge(before[g], last.direction, size)
                                         > fromEdge(before[j], last.direction, size)
             /\ moved =>
                   /\ state.tiles[Len(state.tiles)].id = nextId - 1
                   /\ state.tiles[Len(state.tiles)].id \notin tileIds(before)
                   /\ \A k \in DOMAIN history :
                         state.tiles[Len(state.tiles)].id \notin tileIds(history[k].tiles)

\* a move was undone and the next move merged and spawned a tile: the new
\* id is two above the highest id of the board the move started from
C24_Witness ==
    /\ MoveAccepted
    /\ undosRemaining < InitialUndos
    /\ state.comboCount = 1
    /\ \A j \in DOMAIN last.before.tiles :
          state.tiles[Len(state.tiles)].id > last.before.tiles[j].id + 1

\* C25: one game is counted at most once in the persisted statistics: a
\* game that is over has been counted by the move that ended it, so the
\* restart that follows adds nothing to gamesPlayed and to totalScore
GameCountedOnce ==
    [][(last'.op = "handleRestart" /\ state.gameOver) =>
          /\ loadStats(localStorage').gamesPlayed = loadStats(localStorage).gamesPlayed
          /\ loadStats(localStorage').totalScore = loadStats(localStorage).totalScore]_vars

\* the cell of line k at distance d from the edge the move goes to, and the
\* values of a line read from that edge (0 for an empty cell)
lineCell(direction, k, d, sz) ==
    CASE direction = "left" -> <<k, d>>
      [] direction = "right" -> <<k, sz - 1 - d>>
      [] direction = "up" -> <<d, k>>
      [] OTHER -> <<sz - 1 - d, k>>

valueAt(tiles, cell) ==
    IF tilesAt(tiles, cell[1], cell[2]) = {} THEN 0
    ELSE tiles[CHOOSE i \in tilesAt(tiles, cell[1], cell[2]) : TRUE].value

lineValues(tiles, direction, k, sz) ==
    [d \in 1..sz |-> valueAt(tiles, lineCell(direction, k, d - 1, sz))]

\* the reference line collapse: the tiles are compacted toward the edge in
\* their order and, from the edge, each pair of equal neighbours is merged
\* once into one tile of double value
isTile(v) == v # 0
compactLine(line) == SelectSeq(line, isTile)

RECURSIVE mergePairs(_)
mergePairs(vs) ==
    IF Len(vs) < 2 THEN vs
    ELSE IF vs[1] = vs[2]
         THEN <<2 * vs[1]>> \o mergePairs(SubSeq(vs, 3, Len(vs)))
         ELSE <<vs[1]>> \o mergePairs(Tail(vs))

collapseLine(line) ==
    LET vs == mergePairs(compactLine(line)) IN
    [d \in 1..Len(line) |-> IF d <= Len(vs) THEN vs[d] ELSE 0]

\* C26: for every board and direction the values and positions after the
\* slide/merge phase of move are the reference line collapse of each line,
\* no cell holds two tiles, and move returns true exactly when some line
\* differs from its collapse
ScanIsLineCollapse ==
    MoveCalled =>
       /\ \A k \in 0..(size - 1) :
             lineValues(last.slid.tiles, last.direction, k, size)
                = collapseLine(lineValues(last.before.tiles, last.direction, k, size))
       /\ \A c \in Cells(size) :
             Cardinality(tilesAt(last.slid.tiles, c[1], c[2])) <= 1
       /\ moved <=>
             \E k \in 0..(size - 1) :
                lineValues(last.before.tiles, last.direction, k, size)
                   # collapseLine(lineValues(last.before.tiles, last.direction, k, size))

\* C27: after the slide/merge phase of a move the tiles of every line are
\* packed against the target edge: no tile has an empty cell as its
\* immediate neighbour in the direction of the move
LinesArePacked ==
    MoveCalled =>
       \A k \in 0..(size - 1), d \in 1..(size - 1) :
          valueAt(last.slid.tiles, lineCell(last.direction, k, d, size)) # 0 =>
             valueAt(last.slid.tiles, lineCell(last.direction, k, d - 1, size)) # 0

\* C28: after every accepted move the number of tiles flagged justMerged
\* in engine.state.tiles is state.comboCount, and the score the move
\* gained is the sum of the values of those tiles
MergesAreVisible ==
    MoveAccepted =>
       /\ Cardinality(justMergedTiles(state.tiles)) = state.comboCount
       /\ state.score - last.before.score
             = SumOver(state.tiles, justMergedTiles(state.tiles))

\* C29: no reachable state is stuck: in every state reached by initGame,
\* moves and undos in which gameOver is false, move returns true in at
\* least one of the four directions
NoStuckState ==
    ~state.gameOver =>
       \E direction \in Directions : slideAndMerge(state, direction, size).moved

\* an undo took back the move that had ended the game: the game is open
\* again and the board it restored has a move
C29_Witness ==
    /\ last.op = "handleUndo" /\ last.done
    /\ last.before.gameOver
    /\ ~state.gameOver
    /\ \E direction \in Directions : slideAndMerge(state, direction, size).moved

\* C30: in every reachable state engine.highScore is at least state.score,
\* and highScore never decreases: an accepted move raises it to the new
\* score when the score exceeds it and leaves it otherwise, and an undo, a
\* rejected move and a restart leave it as it is
HighScoreDominates ==
    /\ highScore >= state.score
    /\ [][/\ highScore' >= state'.score
          /\ highScore' >= highScore
          /\ IF last'.op = "handleMove" /\ last'.done /\ moved'
             THEN highScore' = IF state'.score > highScore THEN state'.score
                                                           ELSE highScore
             ELSE highScore' = highScore]_vars

\* an undo lowered the score below the high score the undone move had set
C30_Witness ==
    /\ last.op = "handleUndo" /\ last.done
    /\ state.score < last.before.score
    /\ highScore = last.before.score
    /\ loadHighScore(localStorage) = highScore

====
